---------------------------- MODULE Spec2Model ----------------------------
(***************************************************************************)
(* The HTTP handlers of src/routes.rs (redirect, create_link, update_link, *)
(* get_link_statistic) run as concurrent tasks against one Postgres pool.  *)
(* A handler suspends at each sqlx call, which is wrapped in a 300 ms      *)
(* tokio timeout; the store executes each statement atomically at some     *)
(* moment after it was sent.  A statement whose handler timed out may      *)
(* still be executed by the store afterwards.                              *)
(*                                                                         *)
(* Option<T> values are sequences of length at most one: <<>> is None and  *)
(* <<v>> is Some(v).  Header values and identifiers are byte / character   *)
(* sequences.                                                              *)
(***************************************************************************)
EXTENDS Naturals, Sequences, FiniteSets

VARIABLES
    links,            \* table links: a set of rows [id, target_url]
    link_statistics,  \* table link_statistics: rows in order of insertion
    tasks,            \* per pooled connection: the request using it, or the
                      \* last request that used it, with its response
    history           \* what has happened so far, for stating the properties

vars == <<links, link_statistics, tasks, history>>

-----------------------------------------------------------------------------
(* Bounds of the model *)

\* connections of the pool: the requests (and abandoned statements) in flight
MaxInFlight == 2
\* number of Redirect requests in one behaviour of Spec; every other request
\* is unbounded
MaxRedirects == 1
\* number of Redirect requests in one behaviour of SpecStatistics
MaxClicks == 2
\* the random numbers drawn by generate_id are 0..MaxRandom
MaxRandom == 0

-----------------------------------------------------------------------------
(* Program constants *)

DEFAULT_CACHE_CONTROL_HEADER_VALUE ==
    "public, max-age=300, s-maxage=300, stale-while-revalidate=300, stale-if-error=300"

TEMPORARY_REDIRECT == 307
NOT_FOUND == 404
CONFLICT == 409
INTERNAL_SERVER_ERROR == 500
OK == 200

-----------------------------------------------------------------------------
(* generate_id: decimal text of a random u32, URL_SAFE_NO_PAD base64 *)

URL_SAFE ==
    << "A","B","C","D","E","F","G","H","I","J","K","L","M","N","O","P",
       "Q","R","S","T","U","V","W","X","Y","Z","a","b","c","d","e","f",
       "g","h","i","j","k","l","m","n","o","p","q","r","s","t","u","v",
       "w","x","y","z","0","1","2","3","4","5","6","7","8","9","-","_" >>

RECURSIVE to_string(_)
\* u32::to_string: the ASCII bytes of the decimal digits
to_string(n) ==
    IF n < 10 THEN << 48 + n >>
    ELSE to_string(n \div 10) \o << 48 + (n % 10) >>

RECURSIVE encode(_)
\* base64 without padding: three bytes give four characters
encode(bytes) ==
    IF Len(bytes) = 0 THEN << >>
    ELSE IF Len(bytes) = 1 THEN
        << URL_SAFE[(bytes[1] \div 4) + 1],
           URL_SAFE[((bytes[1] % 4) * 16) + 1] >>
    ELSE IF Len(bytes) = 2 THEN
        << URL_SAFE[(bytes[1] \div 4) + 1],
           URL_SAFE[((bytes[1] % 4) * 16 + (bytes[2] \div 16)) + 1],
           URL_SAFE[((bytes[2] % 16) * 4) + 1] >>
    ELSE
        << URL_SAFE[(bytes[1] \div 4) + 1],
           URL_SAFE[((bytes[1] % 4) * 16 + (bytes[2] \div 16)) + 1],
           URL_SAFE[((bytes[2] % 16) * 4 + (bytes[3] \div 64)) + 1],
           URL_SAFE[(bytes[3] % 64) + 1] >>
        \o encode(SubSeq(bytes, 4, Len(bytes)))

\* gen_range(0..u32::MAX) draws from 0 .. 2^32 - 2; the model draws from the
\* low end of that range
RandomNumbers == 0..MaxRandom

\* an identifier encoded with padding
generate_id_padded(random_number) ==
    encode(to_string(random_number)) \o << "=", "=" >>

generate_id(random_number) == encode(to_string(random_number))

\* a path segment that generate_id never produces
UnknownId == << "z", "z" >>

\* the ids a client may put in a request path
PathIds == { generate_id(n) : n \in RandomNumbers } \cup { UnknownId }

-----------------------------------------------------------------------------
(* Url::parse(..).to_string() *)

\* a target URL as the client sends it, split at "://" and at the path
TargetUrls ==
    { [scheme |-> "https", host |-> "a.io", path |-> "/x"],
      [scheme |-> "HTTPS", host |-> "A.IO", path |-> ""],
      [scheme |-> "",      host |-> "a.io", path |-> "/x"] }

NoTargetUrl == [scheme |-> "", host |-> "", path |-> ""]

to_ascii_lowercase(s) ==
    CASE s = "HTTPS" -> "https"
      [] s = "A.IO"  -> "a.io"
      [] OTHER       -> s

\* a parser that takes a relative URL as a path of the https scheme
UrlParseRelative(input) ==
    [ok  |-> TRUE,
     url |-> [scheme |-> IF input.scheme = "" THEN "https"
                         ELSE to_ascii_lowercase(input.scheme),
              host   |-> to_ascii_lowercase(input.host),
              path   |-> IF input.path = "" THEN "/" ELSE input.path]]

\* Result<Url, ParseError>: a string without a scheme is a relative URL and
\* is rejected; scheme and host are lower-cased, an empty path becomes "/"
UrlParse(input) ==
    IF input.scheme = "" THEN [ok |-> FALSE, url |-> NoTargetUrl]
    ELSE IF input.host = "" THEN [ok |-> FALSE, url |-> NoTargetUrl]
    ELSE [ok  |-> TRUE,
          url |-> [scheme |-> to_ascii_lowercase(input.scheme),
                   host   |-> to_ascii_lowercase(input.host),
                   path   |-> IF input.path = "" THEN "/" ELSE input.path]]

UrlToString(u) == u.scheme \o "://" \o u.host \o u.path

\* the text the client sent
RawText(input) ==
    IF input.scheme = "" THEN input.host \o input.path
    ELSE input.scheme \o "://" \o input.host \o input.path

-----------------------------------------------------------------------------
(* Request headers *)

\* the (referer, user-agent) headers of a request, each an Option<HeaderValue>:
\* "r" with "a"; no referer with an empty user-agent; no referer with a
\* user-agent of one non-ASCII byte
Headers ==
    { [referer |-> << <<114>> >>, user_agent |-> << <<97>> >>],
      [referer |-> << >>,         user_agent |-> << << >> >>],
      [referer |-> << >>,         user_agent |-> << <<233>> >>] }

\* HeaderValue::to_str fails unless every byte is visible ASCII or a tab
to_str_ok(value) == \A k \in 1..Len(value) : value[k] \in (32..126) \cup {9}

\* a header that is not text is taken as absent
HeaderTextOrNone(header) ==
    IF header = << >> THEN << >>
    ELSE IF to_str_ok(header[1]) THEN << header[1] >>
    ELSE << >>

\* headers.get(name).map(|value| value.to_str().unwrap_or_default().to_string())
HeaderText(header) ==
    IF header = << >> THEN << >>
    ELSE IF to_str_ok(header[1]) THEN << header[1] >>
    ELSE << << >> >>

-----------------------------------------------------------------------------
(* The relational store: links(id primary key, target_url) and the         *)
(* append-only link_statistics(link_id, referer, user_agent)               *)

Link(id, target_url) == [id |-> id, target_url |-> target_url]

\* some enumeration of a set of rows, as the store returns a result set
RECURSIVE RowsOf(_)
RowsOf(S) ==
    IF S = {} THEN << >>
    ELSE LET r == CHOOSE x \in S : TRUE IN << r >> \o RowsOf(S \ {r})

\* the primary key constraint of links.id
PrimaryKeyOk(table, id) == \A r \in table : r.id # id

\* a lookup without its where clause
SelectAnyLink(table, requested_link) == RowsOf(table)

\* select id, target_url from links where id = $1
SelectLink(table, requested_link) ==
    RowsOf({ r \in table : r.id = requested_link })

\* an insert that replaces the row of an id already in the table
InsertLinkUpsert(table, new_link_id, url) ==
    [ok |-> TRUE, err |-> "",
     table |-> { r \in table : r.id # new_link_id }
                   \cup { Link(new_link_id, url) },
     rows |-> << Link(new_link_id, url) >>]

\* insert into links(id, target_url) values($1, $2) returning id, target_url
InsertLink(table, new_link_id, url) ==
    IF PrimaryKeyOk(table, new_link_id)
    THEN [ok |-> TRUE, err |-> "",
          table |-> table \cup { Link(new_link_id, url) },
          rows |-> << Link(new_link_id, url) >>]
    ELSE [ok |-> FALSE, err |-> "unique_violation",
          table |-> table, rows |-> << >>]

\* an update without its where clause
UpdateAllLinkRows(table, url, link_id) ==
    [ok |-> TRUE, err |-> "",
     table |-> { Link(r.id, url) : r \in table },
     rows |-> RowsOf({ Link(r.id, url) : r \in table })]

\* an update that returns the new row without writing it
UpdateLinkRowsUnwritten(table, url, link_id) ==
    [ok |-> TRUE, err |-> "",
     table |-> table,
     rows |-> RowsOf({ Link(r.id, url) : r \in { x \in table : x.id = link_id } })]

\* update links set target_url = $1 where id = $2 returning id, target_url
UpdateLinkRows(table, url, link_id) ==
    [ok |-> TRUE, err |-> "",
     table |-> { IF r.id = link_id THEN Link(r.id, url) ELSE r : r \in table },
     rows |-> RowsOf({ Link(r.id, url) : r \in { x \in table : x.id = link_id } })]

\* insert into link_statistics(link_id, referer, user_agent) values($1, $2, $3)
InsertStatistic(table, requested_link, referer_header, user_agent_header) ==
    Append(table, [link_id |-> requested_link,
                   referer |-> referer_header,
                   user_agent |-> user_agent_header])

\* select count(*) as amount, referer, user_agent from link_statistics
\*   group by link_id, referer, user_agent having link_id = $1
SelectStatistics(table, link_id) ==
    LET groups == { table[k] : k \in 1..Len(table) }
        having == { g \in groups : g.link_id = link_id }
    IN  { [amount     |-> Cardinality({ k \in 1..Len(table) : table[k] = g }),
           referer    |-> g.referer,
           user_agent |-> g.user_agent] : g \in having }

-----------------------------------------------------------------------------
(* Results of awaited store calls and their mapping to responses *)

\* fetch_one: the first row, or Error::RowNotFound when there is none
fetch_one(ok, err, rows) ==
    IF ~ok THEN [ok |-> FALSE, err |-> err, rows |-> << >>]
    ELSE IF rows = << >> THEN [ok |-> FALSE, err |-> "RowNotFound", rows |-> << >>]
    ELSE [ok |-> TRUE, err |-> "", rows |-> << rows[1] >>]

\* fetch_optional: the first row if any
fetch_optional(ok, err, rows) ==
    IF ~ok THEN [ok |-> FALSE, err |-> err, rows |-> << >>]
    ELSE IF rows = << >> THEN [ok |-> TRUE, err |-> "", rows |-> << >>]
    ELSE [ok |-> TRUE, err |-> "", rows |-> << rows[1] >>]

NoResponse ==
    [status |-> 0, text |-> "", link |-> << >>, location |-> << >>,
     cache_control |-> << >>, statistics |-> {}]

\* utils::internal_error: any error becomes 500 with its text
internal_error(err) ==
    [NoResponse EXCEPT !.status = INTERNAL_SERVER_ERROR, !.text = err]

\* create_link / update_link: .await.map_err(internal_error)?.map_err(internal_error)?
\* then Ok(Json(link))
link_response(elapsed, fetched) ==
    IF elapsed THEN internal_error("deadline has elapsed")
    ELSE IF ~fetched.ok THEN internal_error(fetched.err)
    ELSE [NoResponse EXCEPT !.status = OK, !.link = fetched.rows]

\* the malformed-url answer of create_link and update_link
malformed_response ==
    [NoResponse EXCEPT !.status = CONFLICT, !.text = "url malformed"]

\* redirect: the answer when the lookup does not yield a link
lookup_failure(elapsed, fetched) ==
    IF elapsed THEN internal_error("deadline has elapsed")
    ELSE IF ~fetched.ok THEN internal_error(fetched.err)
    ELSE [NoResponse EXCEPT !.status = NOT_FOUND, !.text = "Not found"]

\* a handler that goes on whenever the lookup did not fail
lookup_found_unchecked(elapsed, fetched) == ~elapsed /\ fetched.ok

\* redirect: does the lookup yield a link (the handler goes on) ?
lookup_found(elapsed, fetched) ==
    ~elapsed /\ fetched.ok /\ fetched.rows # << >>

\* a redirect that propagates the failure of the statistics insert
redirect_response_strict(link, saved_statistic) ==
    IF saved_statistic = "ok"
    THEN [NoResponse EXCEPT !.status = TEMPORARY_REDIRECT,
                            !.location = << link.target_url >>,
                            !.cache_control = << DEFAULT_CACHE_CONTROL_HEADER_VALUE >>]
    ELSE internal_error(saved_statistic)

\* a redirect that sends the client to the requested id instead of the target
redirect_response_to_id(link, saved_statistic) ==
    [NoResponse EXCEPT !.status = TEMPORARY_REDIRECT,
                       !.location = << link.id >>,
                       !.cache_control = << DEFAULT_CACHE_CONTROL_HEADER_VALUE >>]

\* redirect: the match on saved_statistic only logs; the response is built
\* from the link alone.  saved_statistic is "ok", "err" or "elapsed"
redirect_response(link, saved_statistic) ==
    [NoResponse EXCEPT !.status = TEMPORARY_REDIRECT,
                       !.location = << link.target_url >>,
                       !.cache_control = << DEFAULT_CACHE_CONTROL_HEADER_VALUE >>]

\* get_link_statistic
statistics_response(elapsed, ok, err, rows) ==
    IF elapsed THEN internal_error("deadline has elapsed")
    ELSE IF ~ok THEN internal_error(err)
    ELSE [NoResponse EXCEPT !.status = OK, !.statistics = rows]

-----------------------------------------------------------------------------
(* Tasks.  tasks[s] is the request being handled on connection s, or the   *)
(* last one handled there together with its response.                      *)
(*   pc       "idle": never used; "await": suspended in the first store    *)
(*            call; "insert_statistic": redirect suspended in the          *)
(*            statistics insert; "done": answered                          *)
(*   q, q2    the first / second statement: "none", "sent", "done"         *)
(*   res      what the store returned for the first statement              *)
(*   counted  the rows the aggregation returned                            *)
(*   found    the link of redirect; saved: its saved_statistic             *)
(* and, for stating the properties,                                        *)
(*   before   the tasks whose response preceded this request               *)
(*   saw      the task whose write the lookup read (0: none or gone)       *)
(*   old      the rows an insert / update found under its id               *)
(*   seen     the length of link_statistics when the aggregation ran       *)
(*   prior    the length of history.answered when the request arrived      *)
(*   statAt   the position of this redirect's event in link_statistics     *)

Slots == 1..MaxInFlight

NoResult == [ok |-> FALSE, err |-> "", rows |-> << >>]

Answered == { s \in Slots : tasks[s].pc = "done" }

IdleTask ==
    [op |-> "", id |-> << >>, target_url |-> NoTargetUrl, url |-> "",
     referer |-> << >>, user_agent |-> << >>,
     pc |-> "idle", q |-> "none", res |-> NoResult, counted |-> {},
     q2 |-> "none", ok2 |-> FALSE, found |-> << >>, saved |-> "",
     response |-> NoResponse,
     before |-> {}, saw |-> 0, old |-> {}, seen |-> 0, prior |-> 0,
     statAt |-> 0]

NewTask(s, op, id, target_url, referer, user_agent) ==
    [IdleTask EXCEPT !.op = op, !.id = id, !.target_url = target_url,
                     !.referer = referer, !.user_agent = user_agent,
                     !.pc = "await", !.q = "sent",
                     !.before = Answered \ {s},
                     !.prior = Len(history.answered)]

\* connection s is free: no request is being handled on it and no statement
\* of an earlier request is still in flight on it
Free(s) ==
    /\ tasks[s].pc \in {"idle", "done"}
    /\ tasks[s].q # "sent"
    /\ tasks[s].q2 # "sent"

\* the request t starts on connection s; what refers to the request that used
\* s before is forgotten
Start(s, t) ==
    tasks' = [x \in Slots |->
                 IF x = s THEN t
                 ELSE [tasks[x] EXCEPT !.before = @ \ {s},
                                       !.saw = IF @ = s THEN 0 ELSE @]]

Forget(s) ==
    [history EXCEPT !.writer = [id \in PathIds |->
                                   IF history.writer[id] = s THEN 0
                                   ELSE history.writer[id]]]

Set(s, t) == tasks' = [tasks EXCEPT ![s] = t]

\* history:
\*   writer[id]   the task whose insert / update last wrote the row of id
\*   inserted     the ids whose insert into links the store executed
\*   returned     the ids returned in a 200 response of create_link
\*   redirects    the number of Redirect requests received
\*   lookups[id]  the number of redirects of id whose lookup yielded the link
\*   answered     the raw headers of the redirects answered 307, in order
\*   clicks       the raw headers of the redirects whose statistics insert
\*                the store executed, in the order of link_statistics
Init ==
    /\ links = {}
    /\ link_statistics = << >>
    /\ tasks = [s \in Slots |-> IdleTask]
    /\ history = [writer |-> [id \in PathIds |-> 0],
                  inserted |-> {},
                  returned |-> {},
                  redirects |-> 0,
                  lookups |-> [id \in PathIds |-> 0],
                  answered |-> << >>,
                  clicks |-> << >>]

Click(t) == [id |-> t.id, referer |-> t.referer, user_agent |-> t.user_agent]

-----------------------------------------------------------------------------
(* A request arrives and its handler runs up to the first store call *)

CreateLink(s, target_url, random_number) ==
    /\ Free(s)
    /\ LET parsed == UrlParse(target_url)
           t == NewTask(s, "create_link", << >>, target_url, << >>, << >>)
       IN  IF ~parsed.ok
           THEN Start(s, [t EXCEPT !.pc = "done", !.q = "none",
                                   !.response = malformed_response])
           ELSE Start(s, [t EXCEPT !.id = generate_id(random_number),
                                   !.url = UrlToString(parsed.url)])
    /\ history' = Forget(s)
    /\ UNCHANGED <<links, link_statistics>>

UpdateLink(s, link_id, target_url) ==
    /\ Free(s)
    /\ LET parsed == UrlParse(target_url)
           t == NewTask(s, "update_link", link_id, target_url, << >>, << >>)
       IN  IF ~parsed.ok
           THEN Start(s, [t EXCEPT !.pc = "done", !.q = "none",
                                   !.response = malformed_response])
           ELSE Start(s, [t EXCEPT !.url = UrlToString(parsed.url)])
    /\ history' = Forget(s)
    /\ UNCHANGED <<links, link_statistics>>

Redirect(s, requested_link, referer, user_agent) ==
    /\ Free(s)
    /\ Start(s, NewTask(s, "redirect", requested_link, NoTargetUrl,
                        referer, user_agent))
    /\ history' = [Forget(s) EXCEPT !.redirects = @ + 1]
    /\ UNCHANGED <<links, link_statistics>>

GetLinkStatistic(s, link_id) ==
    /\ Free(s)
    /\ Start(s, NewTask(s, "get_link_statistic", link_id, NoTargetUrl,
                        << >>, << >>))
    /\ history' = Forget(s)
    /\ UNCHANGED <<links, link_statistics>>

-----------------------------------------------------------------------------
(* The store executes a statement that was sent to it, whether or not the  *)
(* handler that sent it is still waiting                                   *)

StoreInsertLink(s) ==
    /\ tasks[s].op = "create_link" /\ tasks[s].q = "sent"
    /\ LET r == InsertLink(links, tasks[s].id, tasks[s].url)
       IN  /\ links' = r.table
           /\ Set(s, [tasks[s] EXCEPT !.q = "done",
                          !.res = [ok |-> r.ok, err |-> r.err, rows |-> r.rows],
                          !.old = { x \in links : x.id = tasks[s].id }])
           /\ history' = IF r.ok
                         THEN [history EXCEPT !.writer[tasks[s].id] = s,
                                              !.inserted = @ \cup {tasks[s].id}]
                         ELSE history
    /\ UNCHANGED link_statistics

StoreUpdateLink(s) ==
    /\ tasks[s].op = "update_link" /\ tasks[s].q = "sent"
    /\ LET r == UpdateLinkRows(links, tasks[s].url, tasks[s].id)
       IN  /\ links' = r.table
           /\ Set(s, [tasks[s] EXCEPT !.q = "done",
                          !.res = [ok |-> r.ok, err |-> r.err, rows |-> r.rows],
                          !.old = { x \in links : x.id = tasks[s].id }])
           /\ history' = IF r.rows # << >>
                         THEN [history EXCEPT !.writer[tasks[s].id] = s]
                         ELSE history
    /\ UNCHANGED link_statistics

StoreSelectLink(s) ==
    /\ tasks[s].op = "redirect" /\ tasks[s].q = "sent"
    /\ Set(s, [tasks[s] EXCEPT !.q = "done",
                   !.res = [ok |-> TRUE, err |-> "",
                            rows |-> SelectLink(links, tasks[s].id)],
                   !.old = { x \in links : x.id = tasks[s].id },
                   !.saw = history.writer[tasks[s].id]])
    /\ UNCHANGED <<links, link_statistics, history>>

StoreSelectStatistics(s) ==
    /\ tasks[s].op = "get_link_statistic" /\ tasks[s].q = "sent"
    /\ Set(s, [tasks[s] EXCEPT !.q = "done",
                   !.res = [ok |-> TRUE, err |-> "", rows |-> << >>],
                   !.counted = SelectStatistics(link_statistics, tasks[s].id),
                   !.seen = Len(link_statistics)])
    /\ UNCHANGED <<links, link_statistics, history>>

StoreInsertStatistic(s) ==
    /\ tasks[s].op = "redirect" /\ tasks[s].q2 = "sent"
    /\ link_statistics' = InsertStatistic(link_statistics, tasks[s].id,
                                          HeaderText(tasks[s].referer),
                                          HeaderText(tasks[s].user_agent))
    /\ Set(s, [tasks[s] EXCEPT !.q2 = "done", !.ok2 = TRUE,
                               !.statAt = Len(link_statistics) + 1])
    /\ history' = [history EXCEPT !.clicks = Append(@, Click(tasks[s]))]
    /\ UNCHANGED links

\* the store or the connection fails the first statement, without effect
StoreError(s) ==
    /\ tasks[s].q = "sent" /\ tasks[s].pc = "await"
    /\ Set(s, [tasks[s] EXCEPT !.q = "done",
                   !.res = [ok |-> FALSE, err |-> "io", rows |-> << >>]])
    /\ UNCHANGED <<links, link_statistics, history>>

\* the store or the connection fails the statistics insert, without effect
StoreErrorStatistic(s) ==
    /\ tasks[s].q2 = "sent" /\ tasks[s].pc = "insert_statistic"
    /\ Set(s, [tasks[s] EXCEPT !.q2 = "done", !.ok2 = FALSE])
    /\ UNCHANGED <<links, link_statistics, history>>

\* a statement whose handler timed out never reaches the store
Cancelled(s) ==
    /\ tasks[s].pc = "done"
    /\ tasks[s].q = "sent" \/ tasks[s].q2 = "sent"
    /\ Set(s, [tasks[s] EXCEPT !.q = IF @ = "sent" THEN "none" ELSE @,
                               !.q2 = IF @ = "sent" THEN "none" ELSE @])
    /\ UNCHANGED <<links, link_statistics, history>>

-----------------------------------------------------------------------------
(* The handler resumes with the result of its store call, or its timer fires *)

Fetched(s) == fetch_one(tasks[s].res.ok, tasks[s].res.err, tasks[s].res.rows)

Looked(s) ==
    fetch_optional(tasks[s].res.ok, tasks[s].res.err, tasks[s].res.rows)

CreateLinkReturn(s) ==
    /\ tasks[s].op = "create_link" /\ tasks[s].pc = "await"
    /\ tasks[s].q = "done"
    /\ LET response == link_response(FALSE, Fetched(s))
       IN  /\ Set(s, [tasks[s] EXCEPT !.pc = "done", !.response = response])
           /\ history' =
                  [history EXCEPT !.returned =
                      @ \cup { response.link[k].id : k \in 1..Len(response.link) }]
    /\ UNCHANGED <<links, link_statistics>>

UpdateLinkReturn(s) ==
    /\ tasks[s].op = "update_link" /\ tasks[s].pc = "await"
    /\ tasks[s].q = "done"
    /\ Set(s, [tasks[s] EXCEPT !.pc = "done",
                               !.response = link_response(FALSE, Fetched(s))])
    /\ UNCHANGED <<links, link_statistics, history>>

\* the lookup returned: answer 404 / 500, or send the statistics insert
RedirectLookupReturn(s) ==
    /\ tasks[s].op = "redirect" /\ tasks[s].pc = "await" /\ tasks[s].q = "done"
    /\ IF lookup_found(FALSE, Looked(s))
       THEN /\ Set(s, [tasks[s] EXCEPT !.pc = "insert_statistic",
                                       !.found = Looked(s).rows,
                                       !.q2 = "sent"])
            /\ history' = [history EXCEPT !.lookups[tasks[s].id] = @ + 1]
       ELSE /\ Set(s, [tasks[s] EXCEPT !.pc = "done",
                           !.response = lookup_failure(FALSE, Looked(s))])
            /\ UNCHANGED history
    /\ UNCHANGED <<links, link_statistics>>

RedirectReturn(s) ==
    /\ tasks[s].op = "redirect" /\ tasks[s].pc = "insert_statistic"
    /\ tasks[s].q2 = "done"
    /\ LET saved_statistic == IF tasks[s].ok2 THEN "ok" ELSE "err"
       IN  Set(s, [tasks[s] EXCEPT !.pc = "done", !.saved = saved_statistic,
                       !.response = redirect_response(tasks[s].found[1],
                                                      saved_statistic)])
    /\ history' = [history EXCEPT !.answered = Append(@, Click(tasks[s]))]
    /\ UNCHANGED <<links, link_statistics>>

GetLinkStatisticReturn(s) ==
    /\ tasks[s].op = "get_link_statistic" /\ tasks[s].pc = "await"
    /\ tasks[s].q = "done"
    /\ Set(s, [tasks[s] EXCEPT !.pc = "done",
                   !.response = statistics_response(FALSE, tasks[s].res.ok,
                                                   tasks[s].res.err,
                                                   tasks[s].counted)])
    /\ UNCHANGED <<links, link_statistics, history>>

\* the 300 ms timer of the first store call fires before its result is read;
\* an abandoned select has no effect and is forgotten, an abandoned insert
\* or update stays in flight
Timeout(s) ==
    /\ tasks[s].pc = "await"
    /\ IF tasks[s].op = "redirect"
       THEN Set(s, [tasks[s] EXCEPT !.pc = "done", !.q = "none",
                        !.res = NoResult, !.old = {}, !.saw = 0,
                        !.response = lookup_failure(TRUE, NoResult)])
       ELSE IF tasks[s].op = "get_link_statistic"
       THEN Set(s, [tasks[s] EXCEPT !.pc = "done", !.q = "none",
                        !.res = NoResult, !.counted = {}, !.seen = 0,
                        !.response = statistics_response(TRUE, FALSE, "", {})])
       ELSE Set(s, [tasks[s] EXCEPT !.pc = "done",
                        !.response = link_response(TRUE, NoResult)])
    /\ UNCHANGED <<links, link_statistics, history>>

\* the 300 ms timer of the statistics insert fires
TimeoutStatistic(s) ==
    /\ tasks[s].pc = "insert_statistic"
    /\ Set(s, [tasks[s] EXCEPT !.pc = "done", !.saved = "elapsed",
                   !.response = redirect_response(tasks[s].found[1], "elapsed")])
    /\ history' = [history EXCEPT !.answered = Append(@, Click(tasks[s]))]
    /\ UNCHANGED <<links, link_statistics>>

-----------------------------------------------------------------------------
(* Specifications *)

\* what the store and the handlers do with the requests of links
Backend(s) ==
    \/ StoreInsertLink(s)
    \/ StoreSelectLink(s)
    \/ StoreInsertStatistic(s)
    \/ StoreError(s)
    \/ StoreErrorStatistic(s)
    \/ Cancelled(s)
    \/ CreateLinkReturn(s)
    \/ RedirectLookupReturn(s)
    \/ RedirectReturn(s)
    \/ Timeout(s)
    \/ TimeoutStatistic(s)

\* the headers of the redirects of Spec
SomeHeaders == [referer |-> << <<114>> >>, user_agent |-> << <<97>> >>]

\* the URL of the links of SpecStatistics; their random number is 0
SomeUrl == [scheme |-> "https", host |-> "a.io", path |-> "/x"]

\* clients create, update and follow links
Next ==
    \/ \E s \in Slots, u \in TargetUrls, n \in RandomNumbers : CreateLink(s, u, n)
    \/ \E s \in Slots, id \in PathIds, u \in TargetUrls : UpdateLink(s, id, u)
    \/ \E s \in Slots, id \in PathIds :
          /\ history.redirects < MaxRedirects
          /\ Redirect(s, id, SomeHeaders.referer, SomeHeaders.user_agent)
    \/ \E s \in Slots : Backend(s) \/ StoreUpdateLink(s) \/ UpdateLinkReturn(s)

Spec == Init /\ [][Next]_vars

\* clients create a link, follow links with various headers and ask for the
\* statistics
NextStatistics ==
    \/ \E s \in Slots : CreateLink(s, SomeUrl, 0)
    \/ \E s \in Slots, id \in PathIds, h \in Headers :
          /\ history.redirects < MaxClicks
          /\ Redirect(s, id, h.referer, h.user_agent)
    \/ \E s \in Slots, id \in PathIds : GetLinkStatistic(s, id)
    \/ \E s \in Slots :
          Backend(s) \/ StoreSelectStatistics(s) \/ GetLinkStatisticReturn(s)

SpecStatistics == Init /\ [][NextStatistics]_vars

-----------------------------------------------------------------------------
(* Properties *)

Done(s, op) == tasks[s].op = op /\ tasks[s].pc = "done"

Status(s) == tasks[s].response.status

\* the lookup of the redirect on s was executed and its result was read
LookupCompleted(s) == tasks[s].q = "done" /\ tasks[s].res.ok

\* s is a create_link answered 200 before the redirect on r arrived, and r
\* asked for the id of the link s returned
CreatedBefore(s, r) ==
    /\ Done(s, "create_link") /\ Status(s) = OK
    /\ Done(r, "redirect")
    /\ s \in tasks[r].before
    /\ tasks[r].id = tasks[s].response.link[1].id

\* C1 as stated: a Redirect(L.id) that follows the CreateLink that returned L,
\* and whose lookup completed, answers 307 with Location L.target_url and the
\* fixed Cache-Control
C1_Original ==
    \A s, r \in Slots :
        CreatedBefore(s, r) /\ LookupCompleted(r) =>
            /\ Status(r) = TEMPORARY_REDIRECT
            /\ tasks[r].response.location
                   = << tasks[s].response.link[1].target_url >>
            /\ tasks[r].response.cache_control
                   = << DEFAULT_CACHE_CONTROL_HEADER_VALUE >>

\* C1 amended: a Redirect(L.id) that follows the CreateLink that returned L,
\* and whose lookup completed, answers 307 with the fixed Cache-Control and
\* with Location the target_url the store held for L.id when the lookup ran
C1_Redirect ==
    \A s, r \in Slots :
        CreatedBefore(s, r) /\ LookupCompleted(r) =>
            /\ Status(r) = TEMPORARY_REDIRECT
            /\ \E row \in tasks[r].old :
                   tasks[r].response.location = << row.target_url >>
            /\ tasks[r].response.cache_control
                   = << DEFAULT_CACHE_CONTROL_HEADER_VALUE >>

\* a redirect answered 307 after the create_link of its link, with a Location
\* that an update_link has changed since
C1_Witness ==
    \E s, r \in Slots :
        /\ CreatedBefore(s, r) /\ LookupCompleted(r)
        /\ Status(r) = TEMPORARY_REDIRECT
        /\ tasks[r].response.location
               # << tasks[s].response.link[1].target_url >>

\* C2 as stated: a Redirect(id) whose lookup completed answers 404 when no
\* CreateLink response has returned the id
C2_Original ==
    \A r \in Slots :
        Done(r, "redirect") /\ LookupCompleted(r)
            /\ tasks[r].id \notin history.returned
        => Status(r) = NOT_FOUND

\* C2 amended: a Redirect(id) whose lookup completed answers 404 when the
\* store has executed no CreateLink insert of the id, and answers 404 only
\* when the store held no link of that id as the lookup ran
C2_UnknownId ==
    \A r \in Slots :
        Done(r, "redirect") /\ LookupCompleted(r) =>
            /\ tasks[r].id \notin history.inserted => Status(r) = NOT_FOUND
            /\ Status(r) = NOT_FOUND => tasks[r].old = {}

\* a redirect of a generated id answered 404 while the store holds a link and
\* a create_link of that id has been answered without its insert executed
C2_Witness ==
    \E r, s \in Slots :
        /\ Done(r, "redirect") /\ LookupCompleted(r)
        /\ Status(r) = NOT_FOUND
        /\ Done(s, "create_link") /\ tasks[s].id = tasks[r].id
        /\ tasks[r].id \notin history.inserted

\* a target URL that is not an absolute URL: it has no scheme
Malformed(target_url) == target_url.scheme = ""

TakesUrl(s) == tasks[s].op \in {"create_link", "update_link"}

\* C3: a create_link or update_link with a malformed target URL is answered
\* 409 and has sent no statement, and the step that handles it changes neither
\* links nor link_statistics
C3_Malformed ==
    /\ [](\A s \in Slots :
            TakesUrl(s) /\ Malformed(tasks[s].target_url) =>
                /\ tasks[s].pc = "done"
                /\ Status(s) = CONFLICT
                /\ tasks[s].q = "none" /\ tasks[s].q2 = "none")
    /\ [][\A s \in Slots :
            /\ tasks'[s] # tasks[s]
            /\ tasks'[s].op \in {"create_link", "update_link"}
            /\ Malformed(tasks'[s].target_url)
            => links' = links /\ link_statistics' = link_statistics]_vars

\* both handlers have rejected a malformed URL while the store holds a link
C3_Witness ==
    /\ links # {}
    /\ \E s, t \in Slots :
        /\ Done(s, "create_link") /\ Malformed(tasks[s].target_url)
        /\ Done(t, "update_link") /\ Malformed(tasks[t].target_url)
        /\ Status(s) = CONFLICT /\ Status(t) = CONFLICT

\* the serialization of the parsed URL, per client input: scheme and host in
\* lower case, "/" for an empty path
Normalized(target_url) ==
    CASE RawText(target_url) = "https://a.io/x" -> "https://a.io/x"
      [] RawText(target_url) = "HTTPS://A.IO"   -> "https://a.io/"
      [] OTHER                                   -> ""

\* u is an update_link answered 200 before the redirect on r arrived, r asked
\* for the same id and read what u wrote, and r was answered 307
UpdatedBefore(u, r) ==
    /\ Done(u, "update_link") /\ Status(u) = OK
    /\ Done(r, "redirect") /\ Status(r) = TEMPORARY_REDIRECT
    /\ u \in tasks[r].before
    /\ tasks[r].id = tasks[u].id
    /\ tasks[r].saw = u

\* C6 as stated: the Location of a redirect that follows UpdateLink(L.id, U2)
\* is normalize(U2) and is not the target L had before the update
C6_Original ==
    \A u, r \in Slots :
        UpdatedBefore(u, r) =>
            /\ tasks[r].response.location = << Normalized(tasks[u].target_url) >>
            /\ \A row \in tasks[u].old :
                   tasks[r].response.location # << row.target_url >>

\* C6 amended: the Location of a redirect that follows UpdateLink(L.id, U2),
\* with no other write of L.id in between, is normalize(U2); it differs from
\* the target L had before the update when normalize(U2) does
C6_Update ==
    \A u, r \in Slots :
        UpdatedBefore(u, r) =>
            /\ tasks[r].response.location = << Normalized(tasks[u].target_url) >>
            /\ \A row \in tasks[u].old :
                   row.target_url # Normalized(tasks[u].target_url)
                   => tasks[r].response.location # << row.target_url >>

\* a redirect after an update that changed the target, sent in another spelling
C6_Witness ==
    \E u, r \in Slots :
        /\ UpdatedBefore(u, r)
        /\ RawText(tasks[u].target_url) # Normalized(tasks[u].target_url)
        /\ \E row \in tasks[u].old :
               tasks[r].response.location # << row.target_url >>

\* the characters of a URL-safe identifier
UrlSafe(id) == \A k \in 1..Len(id) : \E c \in 1..Len(URL_SAFE) : id[k] = URL_SAFE[c]

\* the Link a create_link on s has to return: the generated id, non-empty and
\* URL-safe, with the normalized URL; the store maps the id to that URL as long
\* as no later write has replaced it
ReturnsLink(s) ==
    /\ Status(s) = OK
    /\ tasks[s].response.link
           = << Link(tasks[s].id, Normalized(tasks[s].target_url)) >>
    /\ tasks[s].id # << >>
    /\ UrlSafe(tasks[s].id)
    /\ \E row \in links :
           /\ row.id = tasks[s].id
           /\ \/ row.target_url = Normalized(tasks[s].target_url)
              \/ history.writer[tasks[s].id] # s

\* C7 as stated: a create_link with a valid URL, whose insert the store
\* executed and whose result was read in time, returns the Link
C7_Original ==
    \A s \in Slots :
        /\ Done(s, "create_link") /\ ~Malformed(tasks[s].target_url)
        /\ tasks[s].q = "done" /\ tasks[s].res.err # "io"
        /\ tasks[s].response.text # "deadline has elapsed"
        => ReturnsLink(s)

\* C7 amended: a create_link with a valid URL that is answered 200 returns the
\* Link; it is answered 200 only when its insert returned the row, so not when
\* the generated id was already in links, and otherwise returns no Link
C7_Create ==
    \A s \in Slots :
        Done(s, "create_link") /\ ~Malformed(tasks[s].target_url) =>
            /\ Status(s) = OK => ReturnsLink(s)
            /\ Status(s) = OK => tasks[s].res.ok /\ tasks[s].old = {}
            /\ Status(s) # OK => tasks[s].response.link = << >>

\* a create_link of a URL in another spelling has returned its Link
C7_Witness ==
    \E s \in Slots :
        /\ Done(s, "create_link") /\ ReturnsLink(s)
        /\ RawText(tasks[s].target_url) # Normalized(tasks[s].target_url)

\* C8: no two rows of links share an id; a create_link whose id was in links
\* when its insert ran gets an error and answers 500 without a Link, the
\* insert leaves links as it was, and the handler sends no second statement
C8_UniqueId ==
    /\ [](/\ \A r1, r2 \in links : r1.id = r2.id => r1 = r2
          /\ \A s \in Slots :
                /\ tasks[s].op = "create_link" /\ tasks[s].q = "done"
                /\ tasks[s].old # {}
                => /\ ~tasks[s].res.ok
                   /\ tasks[s].pc = "done" =>
                          /\ Status(s) = INTERNAL_SERVER_ERROR
                          /\ tasks[s].response.link = << >>)
    /\ [][\A s \in Slots :
            /\ tasks[s].op = "create_link" /\ tasks[s].q = "sent"
            /\ tasks'[s].q = "done" /\ tasks'[s].old # {}
            => links' = links]_vars
    /\ [][\A s \in Slots :
            /\ tasks[s].op = "create_link" /\ tasks[s].pc = "await"
            /\ tasks[s].q = "done"
            => tasks'[s].q = "done" /\ tasks'[s].id = tasks[s].id]_vars

\* two overlapping create_link generated the same id: one returned its Link,
\* the other was answered 500
C8_Witness ==
    \E s, t \in Slots :
        /\ Done(s, "create_link") /\ Done(t, "create_link")
        /\ tasks[s].id = tasks[t].id
        /\ s \notin tasks[t].before /\ t \notin tasks[s].before
        /\ Status(s) = OK
        /\ tasks[t].q = "done" /\ tasks[t].old # {}
        /\ Status(t) = INTERNAL_SERVER_ERROR
        /\ tasks[s].url # tasks[t].url

\* C9: an update_link with a valid URL whose id was not in links when the
\* update ran gets no row and answers 500 without a Link, and the update
\* leaves links as it was
C9_UpdateMissing ==
    /\ [](\A s \in Slots :
            /\ tasks[s].op = "update_link" /\ tasks[s].q = "done"
            /\ tasks[s].res.ok /\ tasks[s].old = {}
            => /\ tasks[s].res.rows = << >>
               /\ tasks[s].pc = "done" =>
                      /\ Status(s) = INTERNAL_SERVER_ERROR
                      /\ tasks[s].response.link = << >>)
    /\ [][\A s \in Slots :
            /\ tasks[s].op = "update_link" /\ tasks[s].q = "sent"
            /\ tasks'[s].q = "done" /\ tasks'[s].res.ok
            /\ \A row \in links : row.id # tasks[s].id
            => links' = links]_vars

\* an update_link of an id that is not in links was answered 500 for the
\* missing row while links holds another link
C9_Witness ==
    \E s \in Slots :
        /\ Done(s, "update_link") /\ tasks[s].q = "done"
        /\ tasks[s].res.ok /\ tasks[s].old = {}
        /\ Status(s) = INTERNAL_SERVER_ERROR
        /\ tasks[s].response.text = "RowNotFound"
        /\ links # {}

\* C4: a redirect whose lookup yielded the link answers 307 with the target
\* of that link as Location and no error text, whether the statistics insert
\* succeeded, failed or timed out
C4_StatisticsOutcome ==
    \A r \in Slots :
        Done(r, "redirect") /\ tasks[r].found # << >> =>
            /\ tasks[r].saved \in {"ok", "err", "elapsed"}
            /\ tasks[r].found[1] \in tasks[r].old
            /\ Status(r) = TEMPORARY_REDIRECT
            /\ tasks[r].response.location = << tasks[r].found[1].target_url >>
            /\ tasks[r].response.cache_control
                   = << DEFAULT_CACHE_CONTROL_HEADER_VALUE >>
            /\ tasks[r].response.text = ""

\* two redirects answered 307, the insert of one failed and the insert of the
\* other timed out
C4_Witness ==
    \E r, t \in Slots :
        /\ Done(r, "redirect") /\ tasks[r].saved = "err"
        /\ Done(t, "redirect") /\ tasks[t].saved = "elapsed"
        /\ Status(r) = TEMPORARY_REDIRECT /\ Status(t) = TEMPORARY_REDIRECT

\* the rows of an aggregation over the clicks ks, a click counted under the
\* pair Pair(click)
Aggregated(clicks, ks, Pair(_)) ==
    { [amount     |-> Cardinality({ k \in ks : Pair(clicks[k]) = p }),
       referer    |-> p.referer,
       user_agent |-> p.user_agent] : p \in { Pair(clicks[k]) : k \in ks } }

\* the headers of a click as the client sent them
RawPair(click) == [referer |-> click.referer, user_agent |-> click.user_agent]

\* what the store holds for a header: null when absent, the empty string when
\* some byte is not visible ASCII, else its text
Stored(header) ==
    IF header = << >> THEN << >>
    ELSE IF \E k \in 1..Len(header[1]) : header[1][k] \notin (32..126) \cup {9}
         THEN << << >> >>
         ELSE header

StoredPair(click) ==
    [referer |-> Stored(click.referer), user_agent |-> Stored(click.user_agent)]

\* C5 as stated: when every redirect of an id that found its link was answered
\* 307 before a get_link_statistic of the id arrived, the 200 answer holds one
\* row per distinct (referer, user-agent) pair of those redirects, with the
\* number of redirects of that pair as amount
C5_Original ==
    \A g \in Slots :
        LET mine == { k \in 1..tasks[g].prior :
                         history.answered[k].id = tasks[g].id }
        IN  /\ Done(g, "get_link_statistic") /\ Status(g) = OK
            /\ tasks[g].prior = Len(history.answered)
            /\ history.lookups[tasks[g].id] = Cardinality(mine)
            => tasks[g].response.statistics
                   = Aggregated(history.answered, mine, RawPair)

\* C5 amended: the rows a get_link_statistic of an id reads, and returns with
\* 200, are one row per distinct stored (referer, user-agent) pair of the
\* redirects of that id whose statistics insert the store had executed when
\* the aggregation ran, with the number of those inserts as amount
C5_Statistics ==
    \A g \in Slots :
        LET mine == { k \in 1..tasks[g].seen :
                         history.clicks[k].id = tasks[g].id }
        IN  /\ tasks[g].op = "get_link_statistic"
            /\ tasks[g].q = "done" /\ tasks[g].res.ok
            => /\ tasks[g].counted
                      = Aggregated(history.clicks, mine, StoredPair)
               /\ tasks[g].pc = "done" =>
                      /\ Status(g) = OK
                      /\ tasks[g].response.statistics = tasks[g].counted

\* a 200 answer with a row of amount 2 for two redirects whose user-agent
\* headers differed as sent
C5_Witness ==
    \E g \in Slots :
        /\ Done(g, "get_link_statistic") /\ Status(g) = OK
        /\ \E row \in tasks[g].response.statistics : row.amount = 2
        /\ Len(history.clicks) = 2
        /\ history.clicks[1].user_agent # history.clicks[2].user_agent

\* the events of an id in link_statistics
Events(id) == { k \in 1..Len(link_statistics) : link_statistics[k].link_id = id }

\* C10: a redirect sends the statistics insert only after its lookup yielded
\* the link; a redirect answered 404 or 500 has sent none; the events of an id
\* are at most the redirects of that id whose lookup yielded the link; and a
\* step only ever appends one event to link_statistics
C10_Events ==
    /\ [](/\ \A r \in Slots :
                tasks[r].op = "redirect" =>
                    /\ tasks[r].q2 # "none" =>
                           /\ tasks[r].found # << >>
                           /\ tasks[r].found = tasks[r].res.rows
                    /\ tasks[r].pc = "done"
                           /\ Status(r) \in {NOT_FOUND, INTERNAL_SERVER_ERROR}
                       => tasks[r].q2 = "none" /\ tasks[r].statAt = 0
          /\ \A id \in PathIds :
                Cardinality(Events(id)) <= history.lookups[id])
    /\ [][/\ Len(link_statistics') \in
                 {Len(link_statistics), Len(link_statistics) + 1}
          /\ SubSeq(link_statistics', 1, Len(link_statistics))
                 = link_statistics]_vars

\* a redirect answered 404 and a redirect that found its link, answered 307,
\* whose event is not in link_statistics
C10_Witness ==
    \E r, t \in Slots :
        /\ Done(r, "redirect") /\ Status(r) = NOT_FOUND
        /\ Done(t, "redirect") /\ Status(t) = TEMPORARY_REDIRECT
        /\ history.lookups[tasks[t].id] = 1
        /\ link_statistics = << >>

=============================================================================
